---- MODULE Spec2Model ----
(* Model of computeTVL (src/src/computeTVL/index.ts): normalisation of raw   *)
(* balances, classification into ledger buckets, the four metadata batch     *)
(* calls, the three price requests, and the concurrent per-token valuation.  *)
EXTENDS Integers, Sequences, FiniteSets, TLC

(***************************************************************************)
(* Strings.  A string is a sequence of lexical pieces, so that startsWith,  *)
(* slice, toLowerCase and template concatenation are computed.              *)
(***************************************************************************)
ZeroAddress == <<"0x", "0000000000000000000000000000000000000000">>

StartsWith(s, prefix) == Len(s) >= 1 /\ s[1] = prefix

SliceBsc(s) == Tail(s)

LowerPiece(p) ==
  CASE p = "A" -> "a"
    [] p = "B" -> "b"
    [] p = "C" -> "c"
    [] OTHER -> p

ToLowerCase(s) == [i \in 1..Len(s) |-> LowerPiece(s[i])]

UnknownSymbol(address) == <<"UNKNOWN (">> \o address \o <<")">>

ErrorSymbol(address) == <<"ERROR ">> \o address

(***************************************************************************)
(* Numbers.  A JS number is NaN or an exact decimal m * 10^e kept in        *)
(* canonical form (no trailing zero in m; zero is 0 * 10^0).                *)
(***************************************************************************)
RECURSIVE Pow10(_)
Pow10(n) == IF n <= 0 THEN 1 ELSE 10 * Pow10(n - 1)

RECURSIVE Canon(_, _)
Canon(m, e) ==
  IF m = 0 THEN [t |-> "number", nan |-> FALSE, m |-> 0, e |-> 0]
  ELSE IF m % 10 = 0 THEN Canon(m \div 10, e + 1)
  ELSE [t |-> "number", nan |-> FALSE, m |-> m, e |-> e]

NaN == [t |-> "number", nan |-> TRUE, m |-> 0, e |-> 0]

Zero == Canon(0, 0)

Min(a, b) == IF a <= b THEN a ELSE b

Add(a, b) ==
  IF a.nan \/ b.nan THEN NaN
  ELSE IF a.m = 0 THEN b
  ELSE IF b.m = 0 THEN a
  ELSE LET lo == Min(a.e, b.e)
       IN Canon(a.m * Pow10(a.e - lo) + b.m * Pow10(b.e - lo), lo)

Mul(a, b) ==
  IF a.nan \/ b.nan THEN NaN ELSE Canon(a.m * b.m, a.e + b.e)

(* 10 ** dec, for dec NaN or a non-negative integer *)
TenPow(dec) ==
  IF dec.nan THEN NaN ELSE Canon(1, dec.m * Pow10(dec.e))

(* a / p where p is a power of ten (every division of the source) *)
DivPow(a, p) ==
  IF a.nan \/ p.nan THEN NaN ELSE Canon(a.m, a.e - p.e)

(***************************************************************************)
(* Balance values: numeric strings, other strings, BigNumber objects,       *)
(* numbers.                                                                 *)
(***************************************************************************)
Str(m, e) == [t |-> "string", lit |-> "dec", m |-> m, e |-> e]

StrJunk == [t |-> "string", lit |-> "abc", m |-> 0, e |-> 0]

BigNum(m, e) == [t |-> "object", lit |-> "dec", m |-> m, e |-> e]

(* Number(v) *)
ToNumber(v) ==
  CASE v.t = "number" -> v
    [] v.t = "object" -> Canon(v.m, v.e)
    [] v.t = "string" -> IF v.lit = "dec" THEN Canon(v.m, v.e) ELSE NaN

(* n.toString() *)
NumToString(n) ==
  IF n.nan THEN [t |-> "string", lit |-> "NaN", m |-> 0, e |-> 0]
  ELSE [t |-> "string", lit |-> "dec", m |-> n.m, e |-> n.e]

(* bigNumber.toFixed() *)
ToFixed(v) == [t |-> "string", lit |-> "dec", m |-> v.m, e |-> v.e]

(* x || 0 for x a number or undefined: NaN and 0 are falsy *)
OrZero(defined, x) == IF ~defined \/ x.nan \/ x.m = 0 THEN Zero ELSE x

(***************************************************************************)
(* Objects with insertion-ordered keys (Balances): a sequence of            *)
(* [key, value] with distinct keys; assignment to an existing key replaces  *)
(* its value in place.                                                      *)
(***************************************************************************)
ObjKeys(o) == [i \in 1..Len(o) |-> o[i].key]

ObjHas(o, k) == \E i \in 1..Len(o) : o[i].key = k

ObjGet(o, k) == o[CHOOSE i \in 1..Len(o) : o[i].key = k].value

ObjSet(o, k, v) ==
  IF ObjHas(o, k)
  THEN [i \in 1..Len(o) |-> IF o[i].key = k THEN [key |-> k, value |-> v] ELSE o[i]]
  ELSE Append(o, [key |-> k, value |-> v])

(***************************************************************************)
(* Collaborators: the batched on-chain call client and the price client.    *)
(***************************************************************************)
NoOutput == [t |-> "undefined", lit |-> "", m |-> 0, e |-> 0]

(* what each contract answers; every other call fails *)
OnChainCall(chain, abi, target) ==
  CASE chain = "ethereum" /\ target = <<"0x", "A">> /\ abi = "erc20:decimals" ->
         [target |-> target, success |-> TRUE, output |-> Str(1, 0), symbol |-> <<>>]
    [] chain = "ethereum" /\ target = <<"0x", "A">> /\ abi = "erc20:symbol" ->
         [target |-> target, success |-> TRUE, output |-> NoOutput, symbol |-> <<"X">>]
    [] chain = "ethereum" /\ target = <<"0x", "B">> /\ abi = "erc20:symbol" ->
         [target |-> target, success |-> TRUE, output |-> NoOutput, symbol |-> <<"Y">>]
    [] chain = "bsc" /\ target = <<"0x", "A">> /\ abi = "erc20:decimals" ->
         [target |-> target, success |-> TRUE, output |-> Str(2, 0), symbol |-> <<>>]
    [] chain = "bsc" /\ target = <<"0x", "A">> /\ abi = "erc20:symbol" ->
         [target |-> target, success |-> TRUE, output |-> NoOutput, symbol |-> <<"X">>]
    [] chain = "bsc" /\ target = <<"0x", "C">> /\ abi = "erc20:decimals" ->
         [target |-> target, success |-> TRUE, output |-> Str(0, 0), symbol |-> <<>>]
    [] OTHER ->
         [target |-> target, success |-> FALSE, output |-> NoOutput, symbol |-> <<>>]

Orderings(s) ==
  { [i \in 1..Len(s) |-> s[f[i]]] :
      f \in { g \in [1..Len(s) -> 1..Len(s)] :
                \A a, b \in 1..Len(s) : a # b => g[a] # g[b] } }

(* the outputs multiCall may resolve to: one entry per call, in any order *)
MultiCallOutputs(chain, abi, targets) ==
  Orderings([i \in 1..Len(targets) |-> OnChainCall(chain, abi, targets[i])])

(* tokenMulticall: the successful entries of a multiCall output *)
FilterSuccess(output) == SelectSeq(output, LAMBDA call : call.success)

(* index of calls.find(call => call.input.target === address), 0 if none *)
FindTarget(calls, address) ==
  IF \E i \in 1..Len(calls) : calls[i].target = address
  THEN CHOOSE i \in 1..Len(calls) :
         /\ calls[i].target = address
         /\ \A j \in 1..(i - 1) : calls[j].target # address
  ELSE 0

Usd(m, e) == Canon(m, e)

(* prices the oracle knows, by lower-cased id or address *)
PriceTable(bucket) ==
  CASE bucket = "nonEthereumTokenPrices" -> (<<"ethereum">> :> Usd(2, 3))
    [] bucket = "ethereumTokenPrices" ->
         (<<"0x", "a">> :> Usd(3, 0)) @@ (<<"0x", "b">> :> Usd(5, 0))
    [] bucket = "bscTokenPrices" -> (<<"0x", "a">> :> Usd(2, 0))

(* the mapping a price request resolves to for the requested ids *)
PricesFor(bucket, ids) ==
  LET wanted == { ToLowerCase(ids[i]) : i \in 1..Len(ids) } \cap DOMAIN PriceTable(bucket)
  IN [k \in wanted |-> PriceTable(bucket)[k]]

(***************************************************************************)
(* Normaliser and classifier (pure parts of the default export).            *)
(***************************************************************************)
ListNativeDecimals == 18

EthDecimals == 18

(* rawBalances.reduce(...): list form to base-unit strings, by index *)
RECURSIVE ConvertFrom(_, _, _, _)
ConvertFrom(rawList, callTokenDecimals, index, acc) ==
  IF index > Len(rawList) THEN acc
  ELSE LET token == rawList[index]
           dec == IF callTokenDecimals[index].success
                  THEN ToNumber(callTokenDecimals[index].output)
                  ELSE IF token.address = ZeroAddress
                       THEN Canon(ListNativeDecimals, 0)
                       ELSE NaN
           converted == NumToString(Mul(ToNumber(token.balance), TenPow(dec)))
       IN ConvertFrom(rawList, callTokenDecimals, index + 1,
                      ObjSet(acc, token.address, converted))

ConvertList(rawList, callTokenDecimals) ==
  ConvertFrom(rawList, callTokenDecimals, 1, <<>>)

(* one iteration of the loop over Object.keys(balances) *)
NormalizeEntry(acc, tokenAddressOrName, balance) ==
  LET isNative == tokenAddressOrName = ZeroAddress
      normalizedAddressOrName ==
        IF isNative THEN <<"ethereum">> ELSE tokenAddressOrName
      normalizedBalance ==
        IF isNative
        THEN DivPow(ToNumber(balance), TenPow(Canon(EthDecimals, 0)))
        ELSE balance
      stored ==
        IF normalizedBalance.t = "object" THEN ToFixed(normalizedBalance)
        ELSE normalizedBalance
  IN [normalizedBalances |->
        ObjSet(acc.normalizedBalances, normalizedAddressOrName, stored),
      ethereumAddresses |->
        IF StartsWith(normalizedAddressOrName, "0x")
        THEN Append(acc.ethereumAddresses, normalizedAddressOrName)
        ELSE acc.ethereumAddresses,
      bscAddresses |->
        IF ~StartsWith(normalizedAddressOrName, "0x")
           /\ StartsWith(normalizedAddressOrName, "bsc:")
        THEN Append(acc.bscAddresses, SliceBsc(normalizedAddressOrName))
        ELSE acc.bscAddresses,
      nonEthereumTokenIds |->
        IF ~StartsWith(normalizedAddressOrName, "0x")
           /\ ~StartsWith(normalizedAddressOrName, "bsc:")
        THEN Append(acc.nonEthereumTokenIds, normalizedAddressOrName)
        ELSE acc.nonEthereumTokenIds]

RECURSIVE NormalizeFrom(_, _, _)
NormalizeFrom(bal, i, acc) ==
  IF i > Len(bal) THEN acc
  ELSE NormalizeFrom(bal, i + 1, NormalizeEntry(acc, bal[i].key, bal[i].value))

Normalize(bal) ==
  NormalizeFrom(bal, 1, [normalizedBalances |-> <<>>, ethereumAddresses |-> <<>>,
                         bscAddresses |-> <<>>, nonEthereumTokenIds |-> <<>>])

(***************************************************************************)
(* Valuation helpers.                                                       *)
(***************************************************************************)
EmptyBalances == [symbol \in {} |-> Zero]

addTokenBalance(bals, symbol, amount) ==
  LET sum == Add(OrZero(symbol \in DOMAIN bals,
                        IF symbol \in DOMAIN bals THEN bals[symbol] ELSE Zero),
                 amount)
  IN IF symbol \in DOMAIN bals
     THEN [bals EXCEPT ![symbol] = sum]
     ELSE bals @@ (symbol :> sum)

IsLedgerKey(address) == StartsWith(address, "0x") \/ StartsWith(address, "bsc:")

NormalizedAddress(address) ==
  IF StartsWith(address, "bsc:") THEN SliceBsc(address) ELSE address

ChainTokenSymbols(address) ==
  IF StartsWith(address, "bsc:") THEN "bscTokenSymbols" ELSE "allTokenSymbols"

ChainTokenDecimals(address) ==
  IF StartsWith(address, "bsc:") THEN "bscTokenDecimals" ELSE "allTokenDecimals"

ChainTokenPrices(address) ==
  IF StartsWith(address, "bsc:") THEN "bscTokenPrices" ELSE "ethereumTokenPrices"

(* tokenSymbol after the symbol lookup *)
SymbolOf(address, symbolCalls) ==
  LET idx == FindTarget(symbolCalls, NormalizedAddress(address))
  IN IF idx = 0 THEN UnknownSymbol(address) ELSE symbolCalls[idx].symbol

(* variant of AmountOf: a missing decimals entry is read as 0 decimals *)
AmountOfDefaultDecimals(address, balance, decimalCalls) ==
  LET idx == FindTarget(decimalCalls, NormalizedAddress(address))
  IN IF idx = 0 THEN ToNumber(balance)
     ELSE DivPow(ToNumber(balance), TenPow(ToNumber(decimalCalls[idx].output)))

(* amount after the decimals lookup *)
AmountOf(address, balance, decimalCalls) ==
  LET idx == FindTarget(decimalCalls, NormalizedAddress(address))
  IN IF idx = 0 THEN Zero
     ELSE DivPow(ToNumber(balance), TenPow(ToNumber(decimalCalls[idx].output)))

(* mapping[key]?.usd, then price = 0 when undefined *)
PriceOf(mapping, key) ==
  IF ToLowerCase(key) \in DOMAIN mapping THEN mapping[ToLowerCase(key)] ELSE Zero

(* the tail of the try block: both maps updated, result returned *)
Returned(tokenSymbol, amount, price, tb, utb) ==
  [task |-> [pc |-> "returned", tokenSymbol |-> tokenSymbol,
             amount |-> amount, usdAmount |-> Mul(amount, price)],
   tokenBalances |-> addTokenBalance(tb, tokenSymbol, amount),
   usdTokenBalances |-> addTokenBalance(utb, tokenSymbol, Mul(amount, price))]

(* variant of Caught: the errored token is also recorded in both maps *)
CaughtRecorded(address, tb, utb) ==
  [task |-> [pc |-> "caught", tokenSymbol |-> ErrorSymbol(address),
             amount |-> Zero, usdAmount |-> Zero],
   tokenBalances |-> addTokenBalance(tb, ErrorSymbol(address), Zero),
   usdTokenBalances |-> addTokenBalance(utb, ErrorSymbol(address), Zero)]

(* the catch block *)
Caught(address, tb, utb) ==
  [task |-> [pc |-> "caught", tokenSymbol |-> ErrorSymbol(address),
             amount |-> Zero, usdAmount |-> Zero],
   tokenBalances |-> tb,
   usdTokenBalances |-> utb]

(***************************************************************************)
(* Inputs.                                                                  *)
(***************************************************************************)
MaxTokens == 2

MapKeys ==
  { ZeroAddress, <<"ethereum">>, <<"0x", "A">>, <<"0x", "B">>,
    <<"bsc:", "0x", "A">>, <<"bsc:", "0x", "C">> }

ValuesOf(key) ==
  CASE key = ZeroAddress -> { Str(1, 18) }
    [] key = <<"ethereum">> -> { Str(5, 0) }
    [] key = <<"0x", "A">> -> { Str(50, 0), StrJunk }
    [] key = <<"0x", "B">> -> { Str(7, 0) }
    [] key = <<"bsc:", "0x", "A">> -> { BigNum(3, 2) }
    [] key = <<"bsc:", "0x", "C">> -> { Str(7, 0) }

MapEntries == UNION { { [key |-> k, value |-> v] : v \in ValuesOf(k) } : k \in MapKeys }

MapInputs ==
  UNION { { s \in [1..n -> MapEntries] :
              \A a, b \in 1..n : a # b => s[a].key # s[b].key } : n \in 0..MaxTokens }

ListAddresses == { ZeroAddress, <<"0x", "A">>, <<"0x", "B">> }

ListEntries == { [address |-> a, balance |-> Str(5, 0)] : a \in ListAddresses }

ListInputs ==
  UNION { { s \in [1..n -> ListEntries] :
              \A a, b \in 1..n : a # b => s[a].address # s[b].address } : n \in 1..MaxTokens }

Timestamps == { "now", "past" }

(***************************************************************************)
(* State.                                                                   *)
(***************************************************************************)
VARIABLES rawBalances, timestamp, pc, balances, normalizedBalances,
          ethereumAddresses, bscAddresses, nonEthereumTokenIds,
          calls, awaited, prices, tasks, tokenBalances, usdTokenBalances, usdTvl

vars == <<rawBalances, timestamp, pc, balances, normalizedBalances,
          ethereumAddresses, bscAddresses, nonEthereumTokenIds,
          calls, awaited, prices, tasks, tokenBalances, usdTokenBalances, usdTvl>>

MetadataCalls ==
  { "allTokenDecimals", "allTokenSymbols", "bscTokenDecimals", "bscTokenSymbols" }

CallNames == MetadataCalls \cup { "callTokenDecimals" }

PriceOrder == <<"nonEthereumTokenPrices", "bscTokenPrices", "ethereumTokenPrices">>

PriceNames == { PriceOrder[i] : i \in 1..Len(PriceOrder) }

CallChain(c) == IF c \in { "bscTokenDecimals", "bscTokenSymbols" } THEN "bsc" ELSE "ethereum"

CallAbi(c) ==
  IF c \in { "allTokenSymbols", "bscTokenSymbols" } THEN "erc20:symbol" ELSE "erc20:decimals"

CallTargets(c) ==
  CASE c \in { "allTokenDecimals", "allTokenSymbols" } -> ethereumAddresses
    [] c \in { "bscTokenDecimals", "bscTokenSymbols" } -> bscAddresses
    [] c = "callTokenDecimals" ->
         [i \in 1..Len(rawBalances.entries) |-> rawBalances.entries[i].address]

PriceIds(b) ==
  CASE b = "nonEthereumTokenPrices" -> nonEthereumTokenIds
    [] b = "bscTokenPrices" -> bscAddresses
    [] b = "ethereumTokenPrices" -> ethereumAddresses

PriceClient == IF timestamp = "now" THEN "getTokenPrices" ELSE "getHistoricalTokenPrices"

Init ==
  /\ rawBalances \in { [form |-> "map", entries |-> s] : s \in MapInputs }
                     \cup { [form |-> "list", entries |-> s] : s \in ListInputs }
  /\ timestamp \in Timestamps
  /\ pc = "start"
  /\ balances = <<>>
  /\ normalizedBalances = <<>>
  /\ ethereumAddresses = <<>>
  /\ bscAddresses = <<>>
  /\ nonEthereumTokenIds = <<>>
  /\ calls = [c \in CallNames |-> [status |-> "notStarted", output |-> <<>>]]
  /\ awaited = {}
  /\ prices = [b \in PriceNames |-> [status |-> "notStarted", via |-> "none", value |-> <<>>]]
  /\ tasks = <<>>
  /\ tokenBalances = EmptyBalances
  /\ usdTokenBalances = EmptyBalances
  /\ usdTvl = Zero

(* lines 75-120 / 137: normalise, classify, start the four metadata calls
   and the first price request, then suspend on it *)
Proceed(bal, callsNow) ==
  LET n == Normalize(bal)
  IN /\ balances' = bal
     /\ normalizedBalances' = n.normalizedBalances
     /\ ethereumAddresses' = n.ethereumAddresses
     /\ bscAddresses' = n.bscAddresses
     /\ nonEthereumTokenIds' = n.nonEthereumTokenIds
     /\ calls' = [c \in CallNames |->
                    IF c \in MetadataCalls
                    THEN [status |-> "pending", output |-> <<>>]
                    ELSE callsNow[c]]
     /\ prices' = [prices EXCEPT ![PriceOrder[1]] =
                     [status |-> "pending", via |-> PriceClient, value |-> <<>>]]
     /\ pc' = "awaitPrices1"
     /\ UNCHANGED <<rawBalances, timestamp, awaited, tasks,
                    tokenBalances, usdTokenBalances, usdTvl>>

(* map form: balances = rawBalances *)
CallMapForm ==
  /\ pc = "start"
  /\ rawBalances.form = "map"
  /\ Proceed(rawBalances.entries, calls)

(* list form: the decimals multiCall is issued and awaited *)
CallListForm ==
  /\ pc = "start"
  /\ rawBalances.form = "list"
  /\ calls' = [calls EXCEPT !["callTokenDecimals"].status = "pending"]
  /\ awaited' = awaited \cup { "callTokenDecimals" }
  /\ pc' = "awaitCallTokenDecimals"
  /\ UNCHANGED <<rawBalances, timestamp, balances, normalizedBalances,
                 ethereumAddresses, bscAddresses, nonEthereumTokenIds,
                 prices, tasks, tokenBalances, usdTokenBalances, usdTvl>>

ListDecimalsResolve ==
  /\ pc = "awaitCallTokenDecimals"
  /\ \E out \in MultiCallOutputs("ethereum", "erc20:decimals",
                                 CallTargets("callTokenDecimals")) :
       Proceed(ConvertList(rawBalances.entries, out),
               [calls EXCEPT !["callTokenDecimals"] =
                  [status |-> "resolved", output |-> out]])

(* the awaited multiCall rejects outside any try block *)
ListDecimalsReject ==
  /\ pc = "awaitCallTokenDecimals"
  /\ calls' = [calls EXCEPT !["callTokenDecimals"].status = "rejected"]
  /\ pc' = "rejected"
  /\ UNCHANGED <<rawBalances, timestamp, balances, normalizedBalances,
                 ethereumAddresses, bscAddresses, nonEthereumTokenIds,
                 awaited, prices, tasks, tokenBalances, usdTokenBalances, usdTvl>>

(* a tokenMulticall promise settles *)
MetadataResolve(c) ==
  /\ c \in MetadataCalls
  /\ calls[c].status = "pending"
  /\ \E out \in MultiCallOutputs(CallChain(c), CallAbi(c), CallTargets(c)) :
       calls' = [calls EXCEPT ![c] =
                   [status |-> "resolved", output |-> FilterSuccess(out)]]
  /\ UNCHANGED <<rawBalances, timestamp, pc, balances, normalizedBalances,
                 ethereumAddresses, bscAddresses, nonEthereumTokenIds,
                 awaited, prices, tasks, tokenBalances, usdTokenBalances, usdTvl>>

MetadataReject(c) ==
  /\ c \in MetadataCalls
  /\ calls[c].status = "pending"
  /\ calls' = [calls EXCEPT ![c].status = "rejected"]
  /\ UNCHANGED <<rawBalances, timestamp, pc, balances, normalizedBalances,
                 ethereumAddresses, bscAddresses, nonEthereumTokenIds,
                 awaited, prices, tasks, tokenBalances, usdTokenBalances, usdTvl>>

(* the synchronous part of each valuation task, in Object.entries order:
   an opaque id is valued at once, a ledger key suspends on its symbols *)
RECURSIVE StartTasks(_, _, _, _)
StartTasks(entries, nonEthereumTokenPrices, i, acc) ==
  IF i > Len(entries) THEN acc
  ELSE LET address == entries[i].key
           balance == entries[i].value
           done == Returned(address, ToNumber(balance),
                            PriceOf(nonEthereumTokenPrices, address),
                            acc.tokenBalances, acc.usdTokenBalances)
       IN IF IsLedgerKey(address)
          THEN StartTasks(entries, nonEthereumTokenPrices, i + 1,
                 [acc EXCEPT
                    !.tasks = Append(@, [pc |-> "awaitSymbols", tokenSymbol |-> <<>>,
                                         amount |-> Zero, usdAmount |-> Zero]),
                    !.awaited = @ \cup { ChainTokenSymbols(address) }])
          ELSE StartTasks(entries, nonEthereumTokenPrices, i + 1,
                 [acc EXCEPT
                    !.tasks = Append(@, done.task),
                    !.tokenBalances = done.tokenBalances,
                    !.usdTokenBalances = done.usdTokenBalances])

(* an awaited price request resolves; the next one is only issued now, and
   after the third the valuation tasks are created *)
PriceResolve(k) ==
  /\ k \in 1..Len(PriceOrder)
  /\ pc = "awaitPrices" \o ToString(k)
  /\ LET b == PriceOrder[k]
         resolved == [prices EXCEPT ![b].status = "resolved",
                                    ![b].value = PricesFor(b, PriceIds(b))]
     IN IF k < Len(PriceOrder)
        THEN /\ prices' = [resolved EXCEPT ![PriceOrder[k + 1]] =
                             [status |-> "pending", via |-> PriceClient, value |-> <<>>]]
             /\ pc' = "awaitPrices" \o ToString(k + 1)
             /\ UNCHANGED <<awaited, tasks, tokenBalances, usdTokenBalances>>
        ELSE LET started ==
                   StartTasks(normalizedBalances,
                              resolved["nonEthereumTokenPrices"].value, 1,
                              [tasks |-> <<>>, awaited |-> awaited,
                               tokenBalances |-> EmptyBalances,
                               usdTokenBalances |-> EmptyBalances])
             IN /\ prices' = resolved
                /\ tasks' = started.tasks
                /\ awaited' = started.awaited
                /\ tokenBalances' = started.tokenBalances
                /\ usdTokenBalances' = started.usdTokenBalances
                /\ pc' = "awaitAll"
  /\ UNCHANGED <<rawBalances, timestamp, balances, normalizedBalances,
                 ethereumAddresses, bscAddresses, nonEthereumTokenIds, calls, usdTvl>>

(* an awaited price request rejects outside any try block *)
PriceReject(k) ==
  /\ k \in 1..Len(PriceOrder)
  /\ pc = "awaitPrices" \o ToString(k)
  /\ prices' = [prices EXCEPT ![PriceOrder[k]].status = "rejected"]
  /\ pc' = "rejected"
  /\ UNCHANGED <<rawBalances, timestamp, balances, normalizedBalances,
                 ethereumAddresses, bscAddresses, nonEthereumTokenIds,
                 calls, awaited, tasks, tokenBalances, usdTokenBalances, usdTvl>>

(* a task resumes from await chainTokenSymbols *)
TaskSymbols(i) ==
  /\ pc = "awaitAll"
  /\ i \in 1..Len(tasks)
  /\ tasks[i].pc = "awaitSymbols"
  /\ LET address == normalizedBalances[i].key
         c == calls[ChainTokenSymbols(address)]
         caught == Caught(address, tokenBalances, usdTokenBalances)
     IN /\ c.status \in { "resolved", "rejected" }
        /\ IF c.status = "rejected"
           THEN /\ tasks' = [tasks EXCEPT ![i] = caught.task]
                /\ tokenBalances' = caught.tokenBalances
                /\ usdTokenBalances' = caught.usdTokenBalances
                /\ UNCHANGED awaited
           ELSE /\ tasks' = [tasks EXCEPT ![i].pc = "awaitDecimals",
                                          ![i].tokenSymbol = SymbolOf(address, c.output)]
                /\ awaited' = awaited \cup { ChainTokenDecimals(address) }
                /\ UNCHANGED <<tokenBalances, usdTokenBalances>>
  /\ UNCHANGED <<rawBalances, timestamp, pc, balances, normalizedBalances,
                 ethereumAddresses, bscAddresses, nonEthereumTokenIds,
                 calls, prices, usdTvl>>

(* a task resumes from await chainTokenDecimals and runs to its return *)
TaskDecimals(i) ==
  /\ pc = "awaitAll"
  /\ i \in 1..Len(tasks)
  /\ tasks[i].pc = "awaitDecimals"
  /\ LET address == normalizedBalances[i].key
         balance == normalizedBalances[i].value
         c == calls[ChainTokenDecimals(address)]
         outcome ==
           IF c.status = "rejected"
           THEN Caught(address, tokenBalances, usdTokenBalances)
           ELSE Returned(tasks[i].tokenSymbol,
                         AmountOf(address, balance, c.output),
                         PriceOf(prices[ChainTokenPrices(address)].value,
                                 NormalizedAddress(address)),
                         tokenBalances, usdTokenBalances)
     IN /\ c.status \in { "resolved", "rejected" }
        /\ tasks' = [tasks EXCEPT ![i] = outcome.task]
        /\ tokenBalances' = outcome.tokenBalances
        /\ usdTokenBalances' = outcome.usdTokenBalances
  /\ UNCHANGED <<rawBalances, timestamp, pc, balances, normalizedBalances,
                 ethereumAddresses, bscAddresses, nonEthereumTokenIds,
                 calls, awaited, prices, usdTvl>>

(* (await Promise.all(usdAmounts)).reduce(sum + token.usdAmount, 0) *)
RECURSIVE SumUsdAmounts(_, _, _)
SumUsdAmounts(results, i, sum) ==
  IF i > Len(results) THEN sum
  ELSE SumUsdAmounts(results, i + 1, Add(sum, results[i].usdAmount))

Return ==
  /\ pc = "awaitAll"
  /\ \A i \in 1..Len(tasks) : tasks[i].pc \in { "returned", "caught" }
  /\ usdTvl' = SumUsdAmounts(tasks, 1, Zero)
  /\ pc' = "returned"
  /\ UNCHANGED <<rawBalances, timestamp, balances, normalizedBalances,
                 ethereumAddresses, bscAddresses, nonEthereumTokenIds,
                 calls, awaited, prices, tasks, tokenBalances, usdTokenBalances>>

Next ==
  \/ CallMapForm
  \/ CallListForm
  \/ ListDecimalsResolve
  \/ ListDecimalsReject
  \/ \E c \in MetadataCalls : MetadataResolve(c)
  \/ \E c \in MetadataCalls : MetadataReject(c)
  \/ \E k \in 1..Len(PriceOrder) : PriceResolve(k)
  \/ \E k \in 1..Len(PriceOrder) : PriceReject(k)
  \/ \E i \in 1..MaxTokens : TaskSymbols(i)
  \/ \E i \in 1..MaxTokens : TaskDecimals(i)
  \/ Return

Spec == Init /\ [][Next]_vars

(***************************************************************************)
(* Properties.                                                              *)
(***************************************************************************)
Finished(i) == tasks[i].pc \in { "returned", "caught" }

Normalised == calls["allTokenDecimals"].status # "notStarted"

Valuing == pc \in { "awaitAll", "returned" }

Range(seq) == { seq[i] : i \in 1..Len(seq) }

Ethereum == <<"ethereum">>

ChainOf(address) == IF StartsWith(address, "bsc:") THEN "bsc" ELSE "ethereum"

(* C1: the compute function never rejects, whatever collaborator fails. *)
C1_NeverRejects == pc # "rejected"

(* C2: a token whose valuation throws ends with usdAmount 0 and symbol
   "ERROR <key>", adds nothing to usdTvl, and the step that catches it
   changes neither tokenBalances nor usdTokenBalances, whatever the other
   tasks have done before or do after. *)
C2_ErroredTokenLeavesNoTrace ==
  /\ [](\A i \in 1..Len(tasks) :
          tasks[i].pc = "caught" =>
            /\ tasks[i].usdAmount = Zero
            /\ tasks[i].tokenSymbol = ErrorSymbol(normalizedBalances[i].key)
            /\ tasks[i].tokenSymbol \notin DOMAIN tokenBalances
            /\ tasks[i].tokenSymbol \notin DOMAIN usdTokenBalances)
  /\ [](pc = "returned" =>
          usdTvl = SumUsdAmounts(SelectSeq(tasks, LAMBDA r : r.pc # "caught"), 1, Zero))
  /\ [][\A i \in 1..Len(tasks) :
          (tasks[i].pc # "caught" /\ tasks'[i].pc = "caught") =>
            /\ tokenBalances' = tokenBalances
            /\ usdTokenBalances' = usdTokenBalances]_vars

C2_Witness ==
  /\ pc = "returned"
  /\ \E i, j \in 1..Len(tasks) :
       /\ tasks[i].pc = "caught"
       /\ tasks[j].pc = "returned"
       /\ tasks[j].usdAmount # Zero
       /\ tasks[j].tokenSymbol \in DOMAIN tokenBalances

(* C3: a token whose balance is not a valid number is returned with
   usdAmount 0 and symbol "ERROR <key>", has no entry in either map, and
   usdTvl is the sum of the other tokens' usdAmount. *)
C3_InvalidBalanceDegraded ==
  pc = "returned" =>
    \A i \in 1..Len(tasks) :
      ToNumber(normalizedBalances[i].value).nan =>
        /\ tasks[i].usdAmount = Zero
        /\ tasks[i].tokenSymbol = ErrorSymbol(normalizedBalances[i].key)
        /\ tasks[i].tokenSymbol \notin DOMAIN tokenBalances
        /\ \A j \in 1..Len(tasks) : j # i => tasks[i].tokenSymbol # tasks[j].tokenSymbol
        /\ usdTvl = SumUsdAmounts(
                      [j \in 1..(Len(tasks) - 1) |-> tasks[IF j < i THEN j ELSE j + 1]],
                      1, Zero)

(* C4: a balance keyed at the zero address is stored under "ethereum" as
   balance / 10^18, goes to the opaque-id bucket and never to the
   primary-ledger bucket (so is no target of its metadata lookups), and is
   valued with symbol "ethereum" at the opaque-id price of "ethereum". *)
C4_NativeAssetShortcut ==
  (Normalised /\ ObjHas(balances, ZeroAddress)) =>
    LET native == DivPow(ToNumber(ObjGet(balances, ZeroAddress)), Canon(1, 18))
    IN /\ ~ObjHas(normalizedBalances, ZeroAddress)
       /\ ObjHas(normalizedBalances, Ethereum)
       /\ ToNumber(ObjGet(normalizedBalances, Ethereum)) = native
       /\ Ethereum \in Range(nonEthereumTokenIds)
       /\ ZeroAddress \notin Range(ethereumAddresses)
       /\ \A c \in MetadataCalls : ZeroAddress \notin Range(CallTargets(c))
       /\ Valuing =>
            \E i \in 1..Len(tasks) :
              /\ normalizedBalances[i].key = Ethereum
              /\ tasks[i].pc = "returned"
              /\ tasks[i].tokenSymbol = Ethereum
              /\ tasks[i].amount = native
              /\ tasks[i].usdAmount = Mul(native, Usd(2, 3))

(* C5: a ledger-prefixed token whose ledger's symbol and decimals lookups
   returned a result that holds no decimals entry for it has amount 0 and
   usdAmount 0, is not error-tagged, and carries the symbol call's output, or
   "UNKNOWN (<key>)" when the symbol call of that address failed too. *)
C5_MissingDecimals ==
  \A i \in 1..Len(tasks) :
    LET address == normalizedBalances[i].key
        target == NormalizedAddress(address)
        symbols == calls[ChainTokenSymbols(address)]
        decimals == calls[ChainTokenDecimals(address)]
        onChainSymbol == OnChainCall(ChainOf(address), "erc20:symbol", target)
    IN ( /\ IsLedgerKey(address)
         /\ Finished(i)
         /\ symbols.status = "resolved"
         /\ decimals.status = "resolved"
         /\ \A j \in 1..Len(decimals.output) : decimals.output[j].target # target )
       => /\ tasks[i].pc = "returned"
          /\ tasks[i].amount = Zero
          /\ tasks[i].usdAmount = Zero
          /\ tasks[i].tokenSymbol =
               IF onChainSymbol.success THEN onChainSymbol.symbol
               ELSE UnknownSymbol(address)

C5_Witness ==
  \E i \in 1..Len(tasks) :
    LET address == normalizedBalances[i].key
        target == NormalizedAddress(address)
        decimals == calls[ChainTokenDecimals(address)]
    IN /\ IsLedgerKey(address)
       /\ tasks[i].pc = "returned"
       /\ decimals.status = "resolved"
       /\ \A j \in 1..Len(decimals.output) : decimals.output[j].target # target
       /\ OnChainCall(ChainOf(address), "erc20:symbol", target).success
       /\ ~ToNumber(normalizedBalances[i].value).nan
       /\ ToNumber(normalizedBalances[i].value) # Zero
       /\ PriceOf(prices[ChainTokenPrices(address)].value, target) # Zero

(* C6: every batch result is paired with its address by target: each
   list-form entry is converted with the decimals its own address answered,
   and each valued ledger token carries the symbol and decimals of its own
   address. *)
C6_ResultsPairedByTarget ==
  /\ (Normalised /\ rawBalances.form = "list") =>
       \A i \in 1..Len(rawBalances.entries) :
         LET token == rawBalances.entries[i]
             own == OnChainCall("ethereum", "erc20:decimals", token.address)
             dec == IF own.success THEN ToNumber(own.output)
                    ELSE IF token.address = ZeroAddress THEN Canon(18, 0) ELSE NaN
         IN ObjGet(balances, token.address) =
              NumToString(Mul(ToNumber(token.balance), TenPow(dec)))
  /\ \A i \in 1..Len(tasks) :
       LET address == normalizedBalances[i].key
           target == NormalizedAddress(address)
           ownSymbol == OnChainCall(ChainOf(address), "erc20:symbol", target)
           ownDecimals == OnChainCall(ChainOf(address), "erc20:decimals", target)
       IN (IsLedgerKey(address) /\ tasks[i].pc = "returned") =>
            /\ tasks[i].tokenSymbol =
                 IF ownSymbol.success THEN ownSymbol.symbol ELSE UnknownSymbol(address)
            /\ tasks[i].amount =
                 IF ownDecimals.success
                 THEN DivPow(ToNumber(normalizedBalances[i].value),
                             TenPow(ToNumber(ownDecimals.output)))
                 ELSE Zero

(* C7: once the pipeline has started issuing requests, all seven (four
   metadata batch calls, three price requests) have been started: no price
   request waits for another one to return. *)
C7_AllRequestsStartedEagerly ==
  (\E c \in MetadataCalls : calls[c].status # "notStarted") =>
    /\ \A c \in MetadataCalls : calls[c].status # "notStarted"
    /\ \A b \in PriceNames : prices[b].status # "notStarted"

(* C8: at return every batch call that was started has been awaited and
   has settled. *)
C8_EveryStartedRequestAwaited ==
  pc = "returned" =>
    \A c \in CallNames :
      calls[c].status # "notStarted" =>
        c \in awaited /\ calls[c].status # "pending"

RECURSIVE SumAmountsOf(_, _, _)
SumAmountsOf(symbol, i, sum) ==
  IF i > Len(tasks) THEN sum
  ELSE SumAmountsOf(symbol, i + 1,
         IF tasks[i].pc = "returned" /\ tasks[i].tokenSymbol = symbol
         THEN Add(sum, tasks[i].amount) ELSE sum)

RECURSIVE SumUsdOf(_, _, _)
SumUsdOf(symbol, i, sum) ==
  IF i > Len(tasks) THEN sum
  ELSE SumUsdOf(symbol, i + 1,
         IF tasks[i].pc = "returned" /\ tasks[i].tokenSymbol = symbol
         THEN Add(sum, tasks[i].usdAmount) ELSE sum)

(* C9: the returned maps do not depend on the order in which the valuation
   tasks ran: each entry is the sum of the contributions of all non-errored
   tokens with that symbol. *)
C9_OrderIndependentSums ==
  pc = "returned" =>
    LET symbols == { tasks[i].tokenSymbol : i \in { j \in 1..Len(tasks) : tasks[j].pc = "returned" } }
    IN /\ DOMAIN tokenBalances = symbols
       /\ DOMAIN usdTokenBalances = symbols
       /\ \A s \in symbols :
            /\ tokenBalances[s] = SumAmountsOf(s, 1, Zero)
            /\ usdTokenBalances[s] = SumUsdOf(s, 1, Zero)

(* C10: every raw key yields one normalised entry and one valuation, and
   with both the zero address and "ethereum" in the input the entry
   tokenBalances["ethereum"] is the sum of the two amounts. *)
C10_NormalizationLosesNoBalance ==
  /\ Normalised => Len(normalizedBalances) = Len(balances)
  /\ Valuing => Len(tasks) = Len(rawBalances.entries)
  /\ ( /\ pc = "returned"
       /\ rawBalances.form = "map"
       /\ ObjHas(rawBalances.entries, ZeroAddress)
       /\ ObjHas(rawBalances.entries, Ethereum) )
     => /\ Ethereum \in DOMAIN tokenBalances
        /\ tokenBalances[Ethereum] =
             Add(DivPow(ToNumber(ObjGet(rawBalances.entries, ZeroAddress)), Canon(1, 18)),
                 ToNumber(ObjGet(rawBalances.entries, Ethereum)))

====
